---- MODULE Spec2Model ----
(***************************************************************************)
(* mcp-blackboard: the content-addressed fetch cache (tools/context.py)    *)
(* and the keyed shared-memory store (tools/memory.py).                    *)
(*                                                                         *)
(* SpecFetch drives fetch_context, one file-system operation per step,     *)
(* under the tenacity retry decorator.  SpecStore drives the memory-store  *)
(* handlers against a Redis keyspace with relative expiry times.  The      *)
(* other specifications add plans, the stale-file evictor, validate_key,   *)
(* and calls that overlap.                                                 *)
(***************************************************************************)
EXTENDS Integers, Sequences, FiniteSets, TLC

VARIABLES
    doc,      \* what the converter yields for each reachable remote document
    cache,    \* the cache directory: cache file path -> file
    pc,       \* position of the fetch_context call in flight
    cur,      \* arguments of the call in flight
    log,      \* what the call in flight has done so far
    result,   \* outcome handed to the caller of fetch_context
    hist,     \* per locator: the last successful use_cache=True call
    calls,    \* number of fetch_context calls made
    redis,    \* the Redis keyspace: key -> entry, expiry as seconds left
    elapsed,  \* per result key: seconds since write_result last stored it
    last,     \* the memory-store call that ended last, and how it ended
    ops,      \* number of memory-store calls made
    ticks,    \* number of clock advances
    stat,     \* per cache file: the timestamp its listing carries, its age
    evictor,  \* the scheduler and the remove_stale_files job in flight
    keyArg,   \* the key last handed to validate_key
    keyOut,   \* what validate_key returned or raised for it
    peer,     \* the cache write of a second, overlapping fetch_context call
    writers   \* per client: its write to the memory store, command by command

fetchVars == <<doc, cache, pc, cur, log, result, hist, calls>>

storeVars == <<redis, elapsed, last, ops, ticks>>

sweepVars == <<stat, evictor>>

keyVars == <<keyArg, keyOut>>

concVars == <<peer, writers>>

vars == <<doc, cache, pc, cur, log, result, hist, calls,
          redis, elapsed, last, ops, ticks, stat, evictor, keyArg, keyOut, peer, writers>>

-----------------------------------------------------------------------------
(* Bounds *)

MaxCalls == 3

MaxOps == 2

MaxTicks == 2

\* calls of the plan operations
MaxPlanOps == 3

\* runs of the stale-file job
MaxSweeps == 2

-----------------------------------------------------------------------------
(* Locators *)

UrlPdf == "https://x/doc.pdf"
UrlTxt == "file:///a.txt"
UrlFtp == "ftp://h/f.txt"
UrlBare == "a.txt"

Urls == {UrlPdf, UrlTxt, UrlFtp, UrlBare}

\* url.split("://")
SplitScheme(url) ==
    CASE url = UrlPdf -> <<"https", "x/doc.pdf">>
      [] url = UrlTxt -> <<"file", "/a.txt">>
      [] url = UrlFtp -> <<"ftp", "h/f.txt">>
      [] OTHER -> <<url>>

\* common.get_storage_opts: a configured option set, or ValueError
get_storage_opts(url) ==
    LET protocol == SplitScheme(url)[1]
    IN  IF protocol \in {"s3", "abfs", "gcs", "sftp", "smb", "file", "https"}
        THEN "ok"
        ELSE "ValueError"

\* tools.context.get_filesystem: the unpacking of url.split("://") needs
\* exactly two parts, then the storage options are looked up
get_filesystem(url) ==
    IF Len(SplitScheme(url)) # 2 THEN "ValueError" ELSE get_storage_opts(url)

\* hashlib.md5(url.encode()).hexdigest()
get_cache_key(url) ==
    CASE url = UrlPdf -> "6041d5129db95715e8c30f98d88a18e7"
      [] url = UrlTxt -> "109a2acb8bd3ad549ccde60e27a9e2d9"
      [] url = UrlFtp -> "bb0d6f6923a4c179dd48fc26d5ec65be"
      [] OTHER -> "a5e54d1fd7bb69a228ef0dcd2431367e"

\* app_config.cache_path.split("://")[1]
CachePath == "/tmp/cache"

\* f"{cache_path}/{hash_key}.md"
CacheFile(url) == CachePath \o "/" \o get_cache_key(url) \o ".md"

CacheFiles == {CacheFile(u) : u \in Urls}

NoFile == [exists |-> FALSE, content |-> ""]

File(text) == [exists |-> TRUE, content |-> text]

\* the timestamp fs.listdir reports for a cache entry: ctime as a number, as
\* a numeric str or as other text, creation_time as a datetime with or
\* without tzinfo, or neither of the two fields
StampKinds ==
    {"ctime", "ctime_str", "ctime_text", "creation_time", "creation_time_naive",
     "none"}

\* a cache file is created or overwritten now
Touch(st, f) == [st EXCEPT ![f].age = 0]

\* d seconds pass for the files that exist
Aged(st, d) ==
    [f \in DOMAIN st |->
        IF cache[f].exists THEN [st[f] EXCEPT !.age = @ + d] ELSE st[f]]

\* d seconds pass for the entries of a listing already taken
AgedListing(listing, d) ==
    [i \in DOMAIN listing |-> [listing[i] EXCEPT !.age = @ + d]]

-----------------------------------------------------------------------------
(* Converter results: document.markdown *)

TextDoc == [isstr |-> TRUE, v |-> "# Doc"]
EmptyDoc == [isstr |-> TRUE, v |-> ""]
NoneDoc == [isstr |-> FALSE, v |-> ""]
BytesDoc == [isstr |-> FALSE, v |-> "bytes"]

Markdowns == {TextDoc, EmptyDoc, NoneDoc, BytesDoc}

\* Python truthiness of document.markdown
Truthy(md) == md.v # ""

\* the locators whose scheme has a backend
ValidUrls == {u \in Urls : get_filesystem(u) = "ok"}

-----------------------------------------------------------------------------
(* fetch_context under @retry(stop_after_attempt(3),                       *)
(* wait_exponential(multiplier=0.5), retry_if_exception_type(OSError),     *)
(* reraise=True)                                                           *)

MaxAttempts == 3

\* stop_after_attempt off by one: a 4th attempt is made
StopAfterAttemptLate(n) == n >= MaxAttempts + 1

\* stop=stop_after_attempt(3): no further attempt once attempt n has failed
StopAfterAttempt(n) == n >= MaxAttempts

\* no exception is retried
RetryableNever(exc) == FALSE

\* retry=retry_if_exception_type(OSError)
Retryable(exc) == exc = "OSError"

\* wait=wait_exponential(multiplier=0.5): multiplier * 2^(n-1) after attempt n,
\* counted in half time-units
WaitExponential(n) == 2 ^ (n - 1)

\* no handler around load_cache_file
CacheMissUncaught(exc) == FALSE

\* "except OSError: pass" around load_cache_file
CacheMissCaught(exc) == exc = "OSError"

\* "except Exception as e: raise OSError(...)" around the backend read
WrapBackendError(exc) == "OSError"

NoText == ""

NoArgs == [url |-> "", use_cache |-> FALSE]

NoResult == [status |-> "none", exc |-> "", msg |-> "", text |-> NoText]

NewLog ==
    [attempts |-> 0, backendAttempts |-> 0, backendFaults |-> 0, reads |-> 0,
     converts |-> 0, writes |-> 0, sleeps |-> 0, waited |-> 0,
     readFault |-> FALSE, writeFault |-> FALSE, vanished |-> FALSE,
     startEntry |-> NoFile]

NoCall ==
    [valid |-> FALSE, text |-> NoText, reads |-> 0, converts |-> 0,
     cold |-> FALSE, cacheFault |-> FALSE]

\* use_cache is ignored: every attempt goes to the backend
EntryPcNoCache(use_cache) == "backend"

\* the cache is looked at whatever use_cache says
EntryPcAlwaysCache(use_cache) == "load_exists"

\* first statement an attempt reaches after get_converter_opts
EntryPc(use_cache) == IF use_cache THEN "load_exists" ELSE "backend"

\* an exception leaves the body of fetch_context: tenacity sleeps and calls
\* the body again, or hands the exception to the caller (reraise=True)
Raise(exc, msg, lg) ==
    IF Retryable(exc) /\ ~StopAfterAttempt(lg.attempts)
    THEN /\ pc' = EntryPc(cur.use_cache)
         /\ log' = [lg EXCEPT !.attempts = @ + 1, !.sleeps = @ + 1,
                              !.waited = @ + WaitExponential(lg.attempts)]
         /\ result' = result
    ELSE /\ pc' = "done"
         /\ log' = lg
         /\ result' = [status |-> "error", exc |-> exc, msg |-> msg, text |-> NoText]

\* the body returns text
Return(text, lg) ==
    /\ pc' = "done"
    /\ log' = lg
    /\ result' = [status |-> "ok", exc |-> "", msg |-> "", text |-> text]

\* load_cache_file raised exc inside "try: return load_cache_file(...)"
CacheReadFailed(exc, msg, lg) ==
    IF CacheMissCaught(exc)
    THEN /\ pc' = "backend"
         /\ log' = lg
         /\ result' = result
    ELSE Raise(exc, msg, lg)

\* lines 176-184: the checks on document.markdown before it is returned
Validate(md, lg) ==
    IF ~Truthy(md) THEN Raise("ValueError", "EmptyConversion", lg)
    ELSE IF ~md.isstr THEN Raise("ValueError", "NonTextConversion", lg)
    ELSE Return(md.v, lg)

\* the cache file is opened for writing and nothing is written
WrittenTextNone(md) == ""

\* f.write(contents) in write_cache_file: what the cache file holds afterwards
WrittenText(md) == md.v

\* a caller invokes fetch_context(url, use_cache); the first attempt starts
Call(url, use_cache) ==
    /\ pc = "idle"
    /\ calls < MaxCalls
    /\ calls' = calls + 1
    /\ cur' = [url |-> url, use_cache |-> use_cache]
    /\ log' = [NewLog EXCEPT !.attempts = 1, !.startEntry = cache[CacheFile(url)]]
    /\ pc' = EntryPc(use_cache)
    /\ UNCHANGED <<doc, cache, result, hist>>
    /\ UNCHANGED <<storeVars, sweepVars, keyVars, concVars>>

\* load_cache_file: fs.exists(cache_file)
LoadCacheExists ==
    /\ pc = "load_exists"
    /\ IF cache[CacheFile(cur.url)].exists
       THEN pc' = "load_open" /\ UNCHANGED <<log, result>>
       ELSE CacheReadFailed("OSError", "CacheMissing", log)
    /\ UNCHANGED <<doc, cache, cur, hist, calls>>
    /\ UNCHANGED <<storeVars, sweepVars, keyVars, concVars>>

\* load_cache_file: fs.isfile, fs.open(cache_file, "r"), f.read() and the
\* checks on the content
LoadCacheOpen ==
    /\ pc = "load_open"
    /\ LET f == cache[CacheFile(cur.url)]
       IN  \/ /\ f.exists
              /\ IF f.content = ""
                 THEN CacheReadFailed("ValueError", "CacheEmpty", log)
                 ELSE Return(f.content, log)
           \/ \* the file is gone, or the store fails to open or read it
              CacheReadFailed("OSError", "CacheUnreadable",
                              [log EXCEPT !.readFault = @ \/ f.exists,
                                          !.vanished = @ \/ ~f.exists])
    /\ UNCHANGED <<doc, cache, cur, hist, calls>>
    /\ UNCHANGED <<storeVars, sweepVars, keyVars, concVars>>

\* get_filesystem(url), fs.open(url, "rb"), f.read()
BackendRead ==
    /\ pc = "backend"
    /\ IF get_filesystem(cur.url) # "ok"
       THEN Raise(WrapBackendError("ValueError"), "FailedToLoad", log)
       ELSE \/ Raise(WrapBackendError("IOError"), "FailedToLoad",
                     [log EXCEPT !.backendAttempts = @ + 1, !.backendFaults = @ + 1])
            \/ /\ pc' = "convert"
               /\ log' = [log EXCEPT !.backendAttempts = @ + 1, !.reads = @ + 1]
               /\ result' = result
    /\ UNCHANGED <<doc, cache, cur, hist, calls>>
    /\ UNCHANGED <<storeVars, sweepVars, keyVars, concVars>>

\* markitdown.MarkItDown(**converter_options).convert(buffer)
Convert ==
    /\ pc = "convert"
    /\ LET lg == [log EXCEPT !.converts = @ + 1]
       IN  IF cur.use_cache
           THEN pc' = "write" /\ log' = lg /\ result' = result
           ELSE Validate(doc[cur.url], lg)
    /\ UNCHANGED <<doc, cache, cur, hist, calls>>
    /\ UNCHANGED <<storeVars, sweepVars, keyVars, concVars>>

\* write_cache_file(url, document.markdown, app_config), then lines 176-184
WriteCacheFile ==
    /\ pc = "write"
    /\ LET md == doc[cur.url]
           f == CacheFile(cur.url)
           faulted == [log EXCEPT !.writeFault = TRUE]
       IN  \/ \* fs.mkdir or fs.open(cache_file, "w") fails
              /\ cache' = cache
              /\ stat' = stat
              /\ Raise("OSError", "CacheWrite", faulted)
           \/ \* the file is opened (created or truncated), then f.write is
              \* handed a value that is not a str
              /\ ~md.isstr
              /\ cache' = [cache EXCEPT ![f] = File("")]
              /\ stat' = Touch(stat, f)
              /\ Raise("TypeError", "CacheWrite", log)
           \/ /\ md.isstr
              /\ cache' = [cache EXCEPT ![f] = File(WrittenText(md))]
              /\ stat' = Touch(stat, f)
              /\ Validate(md, [log EXCEPT !.writes = @ + 1])
    /\ UNCHANGED <<doc, cur, hist, calls>>
    /\ UNCHANGED <<storeVars, evictor, keyVars, concVars>>

\* the caller receives the text or the exception
ReturnToCaller ==
    /\ pc = "done"
    /\ pc' = "idle"
    /\ hist' = [hist EXCEPT ![cur.url] =
                   IF result.status = "ok" /\ cur.use_cache
                   THEN [valid |-> TRUE, text |-> result.text,
                         reads |-> log.reads, converts |-> log.converts,
                         cold |-> ~log.startEntry.exists,
                         cacheFault |-> log.readFault \/ log.writeFault]
                   ELSE NoCall]
    /\ cur' = NoArgs
    /\ log' = NewLog
    /\ result' = NoResult
    /\ UNCHANGED <<doc, cache, calls>>
    /\ UNCHANGED <<storeVars, sweepVars, keyVars, concVars>>

-----------------------------------------------------------------------------
(* The memory store: tools/memory.py against Redis *)

ExpireSeconds == 3600

PlanLower == "aaaaaaaa-0000-4000-8000-000000000001"
PlanUpper == "AAAAAAAA-0000-4000-8000-000000000001"

PlanIds == {PlanLower, PlanUpper}

\* a plan id that is no UUID
BadPlanId == "not-a-uuid"

\* an agent name that holds the separator of the keys
BadAgent == "wri|ter"

AgentNames == {"writer", "Writer"}

StepIds == {1, 2}

Descriptions == {"d1", "d2"}

ContextUrls == {UrlTxt}

\* str.lower()
Lower(str) ==
    CASE str = PlanUpper -> PlanLower
      [] str = "Writer" -> "writer"
      [] OTHER -> str

\* an int inside an f-string
Str(n) == CASE n = 1 -> "1" [] n = 2 -> "2" [] OTHER -> "0"

\* Python values handed over as plan or result: the type and, for a dict,
\* its json.dumps text
DictRes == [t |-> "dict", v |-> "{\"a\": 1}"]
StrObjRes == [t |-> "str", v |-> "{\"a\": 1}"]
StrNumRes == [t |-> "str", v |-> "5"]
StrBadRes == [t |-> "str", v |-> "oops"]
StrNullRes == [t |-> "str", v |-> "null"]
IntRes == [t |-> "int", v |-> "123"]

Results == {DictRes, StrObjRes, StrNumRes, StrBadRes, IntRes}

\* json.loads(text): the decoded value, or JSONDecodeError
json_loads(text) ==
    CASE text = "{\"a\": 1}" -> [t |-> "dict", v |-> text]
      [] text = "5" -> [t |-> "int", v |-> "5"]
      [] text = "null" -> [t |-> "none", v |-> ""]
      [] text = "\"{\\\"a\\\": 1}\"" -> [t |-> "str", v |-> "{\"a\": 1}"]
      [] text = "\"5\"" -> [t |-> "str", v |-> "5"]
      [] OTHER -> [t |-> "JSONDecodeError", v |-> ""]

\* json.dumps(value) of a dict, of a str (quoted and escaped) and of None
json_dumps(value) ==
    CASE value.t = "dict" -> value.v
      [] value.t = "none" -> "null"
      [] value.t = "str" /\ value.v = "{\"a\": 1}" -> "\"{\\\"a\\\": 1}\""
      [] OTHER -> "\"" \o value.v \o "\""

\* f"blackboard|{plan_id}".lower()
BlackboardKey(plan_id) == "blackboard|" \o Lower(plan_id)

\* f"result|{plan_id}|{step_id}|{agent_name}".lower()
ResultKey(plan_id, step_id, agent_name) ==
    "result|" \o Lower(plan_id) \o "|" \o Str(step_id) \o "|" \o Lower(agent_name)

\* the context key lower-cased like the result key
ContextKeyLower(plan_id, url) == "context|" \o Lower(plan_id) \o "|" \o url

\* f"context|{plan_id}|{file_path_or_url}"
ContextKey(plan_id, url) == "context|" \o plan_id \o "|" \o url

ResultKeys == {ResultKey(p, s, a) : p \in PlanIds, s \in StepIds, a \in AgentNames}

\* the key the plan document is stored under: write_plan passes plan_id itself
PlanKey(plan_id) == plan_id

\* the plan key of the key grammar, plan|<uuid>
PrefixedPlanKey(plan_id) == "plan|" \o plan_id

\* the keys of calls whose plan id or agent name breaks the key grammar
BadKeys ==
    {ResultKey(BadPlanId, 1, "writer"), ResultKey(PlanLower, 1, BadAgent),
     BlackboardKey(BadPlanId), PlanKey(BadPlanId), PrefixedPlanKey(BadPlanId)}

RedisKeys ==
    ResultKeys \cup {BlackboardKey(p) : p \in PlanIds}
        \cup {PlanKey(p) : p \in PlanIds} \cup {PrefixedPlanKey(p) : p \in PlanIds}
        \cup BadKeys

\* the keys whose time since the last write is followed
TimedKeys ==
    ResultKeys \cup PlanIds
        \cup {ResultKey(BadPlanId, 1, "writer"), ResultKey(PlanLower, 1, BadAgent),
              BadPlanId}

NoExpiry == -1

\* a field or a document that is not there
Absent == "<absent>"

NoDoc == [id |-> 0, goal |-> Absent, steps |-> <<>>]

NoEntry ==
    [type |-> "none", str |-> "", hash |-> <<>>, json |-> NoDoc, ttl |-> NoExpiry]

Exists(r, key) == r[key].type # "none"

\* the hash is written back as a whole, holding the new field only
HSetReplace(r, key, field, value) ==
    [r EXCEPT ![key] = [type |-> "hash", str |-> "", hash |-> (field :> value),
                        json |-> NoDoc,
                        ttl |-> IF Exists(r, key) THEN r[key].ttl ELSE NoExpiry]]

\* HSET key field value: creates the hash when the key is absent
HSet(r, key, field, value) ==
    LET old == IF r[key].type = "hash" THEN r[key].hash ELSE <<>>
        new == [f \in DOMAIN old \cup {field} |-> IF f = field THEN value ELSE old[f]]
    IN  [r EXCEPT ![key] = [type |-> "hash", str |-> "", hash |-> new,
                            json |-> NoDoc,
                            ttl |-> IF Exists(r, key) THEN r[key].ttl ELSE NoExpiry]]

\* EXPIRE key seconds: no effect on an absent key
Expire(r, key, seconds) ==
    IF Exists(r, key) THEN [r EXCEPT ![key].ttl = seconds] ELSE r

\* SET key value: replaces the value and discards the expiry
Set(r, key, value) ==
    [r EXCEPT ![key] = [type |-> "string", str |-> value, hash |-> <<>>,
                        json |-> NoDoc, ttl |-> NoExpiry]]

\* GET key that answers an absent key with the empty string
GetEmpty(r, key) == [t |-> "str", v |-> r[key].str]

\* GET key: the value (decode_responses=True gives str), or None
Get(r, key) ==
    IF r[key].type = "string" THEN [t |-> "str", v |-> r[key].str]
    ELSE [t |-> "none", v |-> ""]

\* HGETALL key: the fields of the hash, none when the key is absent
HGetAll(r, key) == IF r[key].type = "hash" THEN r[key].hash ELSE <<>>

\* redis-py's encoding of the value of SET: str as is, int by repr, anything
\* else is refused with DataError
Encode(value) ==
    CASE value.t = "str" -> [ok |-> TRUE, bytes |-> value.v]
      [] value.t = "int" -> [ok |-> TRUE, bytes |-> value.v]
      [] OTHER -> [ok |-> FALSE, bytes |-> ""]

\* seconds pass: expiries count down, a key whose expiry is reached is gone
Expired(r, d) ==
    [k \in DOMAIN r |->
        IF r[k].ttl = NoExpiry \/ ~Exists(r, k) THEN r[k]
        ELSE IF r[k].ttl - d <= 0 THEN NoEntry
        ELSE [r[k] EXCEPT !.ttl = @ - d]]

\* client.hset(_b_key, _v_key, description); client.expire(_b_key, 3600),
\* left without its expire
IndexEntryNoExpire(r, b_key, v_key, description) ==
    HSet(r, b_key, v_key, description)

\* client.hset(_b_key, _v_key, description); client.expire(_b_key, 3600)
IndexEntry(r, b_key, v_key, description) ==
    Expire(HSet(r, b_key, v_key, description), b_key, ExpireSeconds)

\* client.set(_v_key, data); client.expire(_v_key, 3600), left without its
\* expire
StoreResultNoExpire(r, v_key, bytes) == Set(r, v_key, bytes)

\* client.set(_v_key, data); client.expire(_v_key, 3600)
StoreResult(r, v_key, bytes) ==
    Expire(Set(r, v_key, bytes), v_key, ExpireSeconds)

NeverWritten == NoExpiry

Finished(op, outcome) == [op |-> op, outcome |-> outcome]

\* write_result without the checks on result: a str is stored as it is
ResultDataUnchecked(res) ==
    IF res.t = "dict" THEN [t |-> "str", v |-> json_dumps(res)]
    ELSE [t |-> "str", v |-> res.v]

\* write_result: lines 125-134, the type and JSON checks on result
ResultData(res) ==
    IF res.t \notin {"dict", "str"} THEN [t |-> "ValueError", v |-> ""]
    ELSE IF res.t = "str"
         THEN (IF json_loads(res.v).t = "JSONDecodeError"
               THEN [t |-> "ValueError", v |-> ""]
               ELSE json_loads(res.v))
         ELSE [t |-> "str", v |-> json_dumps(res)]

\* write_result(plan_id, agent_name, step_id, description, result)
write_result(plan_id, agent_name, step_id, description, res) ==
    LET data == ResultData(res)
        b_key == BlackboardKey(plan_id)
        v_key == ResultKey(plan_id, step_id, agent_name)
        indexed == IndexEntry(redis, b_key, v_key, description)
    IN  /\ ops < MaxOps
        /\ ops' = ops + 1
        /\ IF data.t = "ValueError"
           THEN /\ last' = Finished("write_result", "ValueError")
                /\ UNCHANGED <<redis, elapsed>>
           ELSE IF ~Encode(data).ok
           THEN \* client.set raises after the index was written
                /\ redis' = indexed
                /\ last' = Finished("write_result", "DataError")
                /\ UNCHANGED elapsed
           ELSE /\ redis' = StoreResult(indexed, v_key, Encode(data).bytes)
                /\ elapsed' = [elapsed EXCEPT ![v_key] = 0]
                /\ last' = Finished("write_result", "ok")
        /\ UNCHANGED <<ticks>>
        /\ UNCHANGED <<fetchVars, sweepVars, keyVars, concVars>>

\* write_context_description(plan_id, file_path_or_url, description)
write_context_description(plan_id, url, description) ==
    LET b_key == BlackboardKey(plan_id)
        v_key == ContextKey(plan_id, url)
    IN  /\ ops < MaxOps
        /\ ops' = ops + 1
        /\ redis' = IndexEntry(redis, b_key, v_key, description)
        /\ last' = Finished("write_context_description", "ok")
        /\ UNCHANGED <<elapsed, ticks>>
        /\ UNCHANGED <<fetchVars, sweepVars, keyVars, concVars>>

\* fetch_result(plan_id, agent_name, step_id)
fetch_result(plan_id, agent_name, step_id) ==
    json_dumps(Get(redis, ResultKey(plan_id, step_id, agent_name)))

\* fetch_blackboard(plan_id), before json.dumps
fetch_blackboard(plan_id) == HGetAll(redis, BlackboardKey(plan_id))

-----------------------------------------------------------------------------
(* Plans: server.save_plan, tools/memory.py write_plan, update_plan_status,
   fetch_plan against the JSON documents of the same Redis *)

\* PlanStep.agent
Roles == {"researcher", "extractor", "analyzer", "writer", "editor", "evaluator"}

\* PlanStep.status
Statuses == {"pending", "completed", "failed"}

\* PlanStep.status default
DefaultStatus == "pending"

Step(id, agent, status) ==
    [id |-> id, agent |-> agent, prompt |-> "p", status |-> status]

\* plan documents as a caller hands them over; Absent marks a missing field
PlanTwo ==
    [id |-> 1, goal |-> "g1",
     steps |-> <<Step(1, "researcher", "pending"), Step(2, "writer", "pending")>>]
PlanNone == [id |-> 2, goal |-> "g2", steps |-> <<>>]
PlanDefault == [id |-> 3, goal |-> "g3", steps |-> <<Step(1, "editor", Absent)>>]
PlanBadAgent == [id |-> 4, goal |-> "g4", steps |-> <<Step(1, "hacker", "pending")>>]
PlanBadStatus == [id |-> 5, goal |-> "g5", steps |-> <<Step(1, "writer", "done")>>]
PlanNoGoal == [id |-> 6, goal |-> Absent, steps |-> <<>>]

WellFormedDocs == {PlanTwo, PlanNone, PlanDefault}

MalformedDocs == {PlanBadAgent, PlanBadStatus, PlanNoGoal}

\* the plan argument: a dict, a str (JSON text of v when json holds), or
\* another type
DictPlan(d) == [t |-> "dict", json |-> FALSE, v |-> d]
JsonPlan(d) == [t |-> "str", json |-> TRUE, v |-> d]
NotJsonPlan == [t |-> "str", json |-> FALSE, v |-> NoDoc]
IntPlan == [t |-> "int", json |-> FALSE, v |-> NoDoc]

PlanInputs ==
    {DictPlan(d) : d \in WellFormedDocs \cup MalformedDocs}
        \cup {JsonPlan(d) : d \in WellFormedDocs \cup MalformedDocs}
        \cup {NotJsonPlan, IntPlan}

\* step_id values handed to update_plan_status
UpdateStepIds == {0, 1, 2, 3}

UpdateStatuses == {"completed", "failed"}

\* every agent is accepted
model_validate_any_agent(d) ==
    /\ d.goal # Absent
    /\ \A i \in DOMAIN d.steps : d.steps[i].status \in Statuses \cup {Absent}

\* Plan.model_validate: the required fields are there, agent and status are
\* in their Literal sets (status may be left out)
model_validate(d) ==
    /\ d.goal # Absent
    /\ \A i \in DOMAIN d.steps :
          /\ d.steps[i].agent \in Roles
          /\ d.steps[i].status \in Statuses \cup {Absent}

\* parsed.model_dump(mode="json"): defaults are filled in
model_dump(d) ==
    [d EXCEPT !.steps = [i \in DOMAIN d.steps |->
        [d.steps[i] EXCEPT !.status = IF @ = Absent THEN DefaultStatus ELSE @]]]

\* save_plan, lines 83-101: validation of the argument
ValidatePlan(plan) ==
    IF plan.t = "str"
    THEN (IF plan.json /\ model_validate(plan.v)
          THEN [ok |-> TRUE, doc |-> model_dump(plan.v)]
          ELSE [ok |-> FALSE, doc |-> NoDoc])
    ELSE IF plan.t = "dict"
    THEN (IF model_validate(plan.v)
          THEN [ok |-> TRUE, doc |-> model_dump(plan.v)]
          ELSE [ok |-> FALSE, doc |-> NoDoc])
    ELSE [ok |-> FALSE, doc |-> NoDoc]

\* write_plan, lines 45-52: the type check and json.loads of a str
PlanData(plan) ==
    IF plan.t \notin {"dict", "str"} THEN [ok |-> FALSE, doc |-> NoDoc]
    ELSE IF plan.t = "str"
         THEN (IF plan.json THEN [ok |-> TRUE, doc |-> plan.v]
               ELSE [ok |-> FALSE, doc |-> NoDoc])
         ELSE [ok |-> TRUE, doc |-> plan.v]

\* JSON.SET key $ doc that keeps the steps of the document it overwrites
JsonSetRootMerge(r, key, document) ==
    [r EXCEPT ![key] = [type |-> "json", str |-> "", hash |-> <<>>,
                        json |-> IF r[key].type = "json"
                                 THEN [document EXCEPT !.steps = r[key].json.steps]
                                 ELSE document,
                        ttl |-> NoExpiry]]

\* JSON.SET key $ doc: the key holds the new document, without expiry
JsonSetRoot(r, key, document) ==
    [r EXCEPT ![key] = [type |-> "json", str |-> "", hash |-> <<>>,
                        json |-> document, ttl |-> NoExpiry]]

\* client.json().set(plan_id, "$", plan); client.expire(plan_id, 3600)
StorePlan(r, key, document) == Expire(JsonSetRoot(r, key, document), key, ExpireSeconds)

\* write_plan(plan_id, plan): the outcome and the store it leaves
write_plan(r, plan_id, plan) ==
    LET data == PlanData(plan)
    IN  IF ~data.ok THEN [outcome |-> "ValueError", redis |-> r]
        ELSE [outcome |-> "ok", redis |-> StorePlan(r, PlanKey(plan_id), data.doc)]

\* save_plan(plan_id, plan)
save_plan(plan_id, plan) ==
    LET parsed == ValidatePlan(plan)
        written == write_plan(redis, plan_id, DictPlan(parsed.doc))
    IN  /\ ops < MaxPlanOps
        /\ ops' = ops + 1
        /\ IF ~parsed.ok
           THEN /\ last' = Finished("save_plan", "ValueError")
                /\ UNCHANGED <<redis, elapsed>>
           ELSE /\ redis' = written.redis
                /\ last' = Finished("save_plan", written.outcome)
                /\ elapsed' = [elapsed EXCEPT ![plan_id] = 0]
        /\ UNCHANGED <<ticks>>
        /\ UNCHANGED <<fetchVars, sweepVars, keyVars, concVars>>

\* fetch_plan(plan_id): client.json().get(plan_id), NoDoc for None
fetch_plan(plan_id) ==
    IF redis[PlanKey(plan_id)].type = "json" THEN redis[PlanKey(plan_id)].json
    ELSE NoDoc

\* step_id taken as the 0-based index
StepPositionById(step_id, n) == step_id + 1

\* f".steps.[{step_id - 1}].status": the position (from 1) in a list of n
\* steps that the index selects; a negative index counts from the end
StepPosition(step_id, n) ==
    LET index == step_id - 1
    IN  IF index >= 0 THEN index + 1 ELSE n + index + 1

\* JSON.SET on a path that also restarts the expiry
JsonSetPathExpire(r, key, pos, status) ==
    [r EXCEPT ![key].json.steps[pos].status = status, ![key].ttl = ExpireSeconds]

\* JSON.SET key .steps.[i].status value on a step that exists: the value at
\* the path is replaced, the expiry of the key is kept
JsonSetPath(r, key, pos, status) ==
    [r EXCEPT ![key].json.steps[pos].status = status]

\* JSON.SET below the root of a key that does not exist is let through
MissingKeyReplyNil == "ok"

\* JSON.SET below the root of a key that does not exist: the server answers
\* with an error, which redis-py raises
MissingKeyReply == "ResponseError"

\* JSON.SET on a path that selects nothing: the server answers nil or with
\* an error; update_plan_status ignores a nil reply
NoMatchReplies == {"ok", "ResponseError"}

\* update_plan_status(plan_id, step_id, status)
update_plan_status(plan_id, step_id, status) ==
    LET key == PlanKey(plan_id)
        n == Len(redis[key].json.steps)
        pos == StepPosition(step_id, n)
    IN  /\ ops < MaxPlanOps
        /\ ops' = ops + 1
        /\ IF redis[key].type # "json"
           THEN /\ last' = Finished("update_plan_status", MissingKeyReply)
                /\ UNCHANGED redis
           ELSE IF pos \in 1..n
           THEN /\ redis' = JsonSetPath(redis, key, pos, status)
                /\ last' = Finished("update_plan_status", "ok")
           ELSE /\ UNCHANGED redis
                /\ \E reply \in NoMatchReplies :
                      last' = Finished("update_plan_status", reply)
        /\ UNCHANGED <<elapsed, ticks>>
        /\ UNCHANGED <<fetchVars, sweepVars, keyVars, concVars>>

-----------------------------------------------------------------------------
(* The stale-file evictor: server.remove_stale_files under the background
   scheduler *)

\* remove_stale_files(max_age: int = 3600)
MaxAge == 3600

\* get_file_age(file_info): the age in whole seconds, or the exception of
\* line 60 when neither ctime nor creation_time is there
get_file_age(info) ==
    CASE info.kind \in {"ctime", "ctime_str"} -> [raised |-> FALSE, age |-> info.age]
      [] info.kind = "ctime_text" -> [raised |-> FALSE, age |-> 0]
      [] info.kind \in {"creation_time", "creation_time_naive"} ->
            [raised |-> FALSE, age |-> info.age]
      [] OTHER -> [raised |-> TRUE, age |-> 0]

\* an entry is removed from its age on
StaleInclusive(age, max_age) == age >= max_age

\* if file_age > max_age
Stale(age, max_age) == age > max_age

\* the trigger fires whatever the state of the scheduler
TriggerFiresAlways(scheduler) == TRUE

\* CronTrigger(minute=0) starts the job while the scheduler is running
TriggerFires(scheduler) == scheduler = "running"

\* an exception of the job takes the scheduler down
AfterJobErrorCrash(scheduler) == "crashed"

\* an exception that leaves remove_stale_files is caught and logged by the
\* scheduler's executor; the scheduler goes on
AfterJobError(scheduler) == scheduler

\* the orders in which fs.listdir may report the files of a set
Listings(files) ==
    {l \in [1..Cardinality(files) -> files] :
        \A i, j \in 1..Cardinality(files) : l[i] = l[j] => i = j}

IdleEvictor ==
    [pc |-> "idle", todo |-> <<>>, listed |-> {}, seen |-> {},
     outcome |-> "none", runs |-> 0, errors |-> 0, scheduler |-> "running"]

\* the job leaves remove_stale_files with an exception, which the executor
\* logs
JobFails(ev) ==
    [ev EXCEPT !.pc = "idle", !.todo = <<>>, !.outcome = "failed",
               !.errors = @ + 1, !.scheduler = AfterJobError(@)]

\* the trigger fires: remove_stale_files runs up to fs.listdir(cache_path)
CronFires ==
    /\ evictor.pc = "idle"
    /\ TriggerFires(evictor.scheduler)
    /\ evictor.runs < MaxSweeps
    /\ LET started == [evictor EXCEPT !.runs = @ + 1, !.listed = {}, !.seen = {}]
           present == {f \in CacheFiles : cache[f].exists}
       IN  \/ evictor' = JobFails(started)
           \/ \E l \in Listings(present) :
                 evictor' = [started EXCEPT
                     !.pc = "sweeping",
                     !.outcome = "running",
                     !.listed = present,
                     !.todo = [i \in DOMAIN l |->
                                 [name |-> l[i], kind |-> stat[l[i]].kind,
                                  age |-> stat[l[i]].age]]]
    /\ UNCHANGED <<stat, fetchVars, storeVars, keyVars, concVars>>

\* one turn of the loop: get_file_age(file_info), then fs.rm when stale
SweepEntry ==
    /\ evictor.pc = "sweeping"
    /\ evictor.todo # <<>>
    /\ LET entry == Head(evictor.todo)
           file_age == get_file_age(entry)
           next == [evictor EXCEPT !.todo = Tail(@), !.seen = @ \cup {entry}]
       IN  IF file_age.raised
           THEN evictor' = JobFails(evictor) /\ UNCHANGED <<cache, stat>>
           ELSE IF Stale(file_age.age, MaxAge)
           THEN \/ \* fs.rm raises
                   evictor' = JobFails(evictor) /\ UNCHANGED <<cache, stat>>
                \/ /\ cache[entry.name].exists
                   /\ cache' = [cache EXCEPT ![entry.name] = NoFile]
                   /\ stat' = Touch(stat, entry.name)
                   /\ evictor' = next
           ELSE evictor' = next /\ UNCHANGED <<cache, stat>>
    /\ UNCHANGED <<doc, pc, cur, log, result, hist, calls>>
    /\ UNCHANGED <<storeVars, keyVars, concVars>>

\* the loop is through: remove_stale_files returns
SweepReturns ==
    /\ evictor.pc = "sweeping"
    /\ evictor.todo = <<>>
    /\ evictor' = [evictor EXCEPT !.pc = "idle", !.outcome = "completed"]
    /\ UNCHANGED <<stat, fetchVars, storeVars, keyVars, concVars>>

\* the lifespan ends: scheduler.shutdown()
Shutdown ==
    /\ evictor.scheduler = "running"
    /\ evictor' = [evictor EXCEPT !.scheduler = "stopped"]
    /\ UNCHANGED <<stat, fetchVars, storeVars, keyVars, concVars>>

-----------------------------------------------------------------------------
(* Keys: common.validate_key *)

\* a part that is not there: None
None == "<None>"

\* str.split("|") from position i on, the current part starting at begin
RECURSIVE SplitFrom(_, _, _)
SplitFrom(str, i, begin) ==
    IF i > Len(str) THEN <<SubSeq(str, begin, Len(str))>>
    ELSE IF SubSeq(str, i, i) = "|"
         THEN <<SubSeq(str, begin, i - 1)>> \o SplitFrom(str, i + 1, i + 1)
         ELSE SplitFrom(str, i + 1, begin)

\* key.split("|")
Split(str) == SplitFrom(str, 1, 1)

HexDigits ==
    {"0", "1", "2", "3", "4", "5", "6", "7", "8", "9",
     "a", "b", "c", "d", "e", "f", "A", "B", "C", "D", "E", "F"}

\* the characters of str other than "-"
RECURSIVE Unhyphened(_, _)
Unhyphened(str, i) ==
    IF i > Len(str) THEN <<>>
    ELSE IF SubSeq(str, i, i) = "-" THEN Unhyphened(str, i + 1)
         ELSE <<SubSeq(str, i, i)>> \o Unhyphened(str, i + 1)

\* the hexadecimal digits a UUID has
UuidDigits == 32

\* uuid.UUID(hex) accepts: hyphens dropped, 32 characters, all hexadecimal
IsUuid(str) ==
    LET hex == Unhyphened(str, 1)
    IN  /\ Len(hex) = UuidDigits
        /\ \A i \in 1..Len(hex) : hex[i] \in HexDigits

KeyKinds == {"plan", "blackboard", "context", "result"}

\* the number of parts a key of the kind has
Arity(kind) ==
    CASE kind \in {"plan", "blackboard"} -> 2
      [] kind = "context" -> 3
      [] kind = "result" -> 4

\* the UUID is looked at before the kind and the number of parts
validate_key_uuid_first(k) ==
    LET parts == Split(k)
    IN  IF Len(parts) < 2 \/ ~IsUuid(parts[2])
        THEN [status |-> "PlanId", parts |-> <<>>]
        ELSE IF parts[1] \notin KeyKinds \/ Len(parts) # Arity(parts[1])
        THEN [status |-> "KeyFormat", parts |-> <<>>]
        ELSE [status |-> "ok",
              parts |-> <<parts[1], parts[2],
                          IF Len(parts) > 2 THEN parts[3] ELSE None,
                          IF Len(parts) > 3 THEN parts[4] ELSE None>>]

\* the number of parts is not looked at
validate_key_any_arity(k) ==
    LET parts == Split(k)
    IN  IF parts[1] \notin KeyKinds \/ Len(parts) < 2
        THEN [status |-> "KeyFormat", parts |-> <<>>]
        ELSE IF ~IsUuid(parts[2])
        THEN [status |-> "PlanId", parts |-> <<>>]
        ELSE [status |-> "ok",
              parts |-> <<parts[1], parts[2],
                          IF Len(parts) > 2 THEN parts[3] ELSE None,
                          IF Len(parts) > 3 THEN parts[4] ELSE None>>]

\* validate_key(key): the four parts, or the ValueError it raises, told
\* apart by its message (the key format, the plan id)
validate_key(k) ==
    LET parts == Split(k)
    IN  IF parts[1] \notin KeyKinds
        THEN [status |-> "KeyFormat", parts |-> <<>>]
        ELSE IF Len(parts) # Arity(parts[1])
        THEN [status |-> "KeyFormat", parts |-> <<>>]
        ELSE IF ~IsUuid(parts[2])
        THEN [status |-> "PlanId", parts |-> <<>>]
        ELSE [status |-> "ok",
              parts |-> <<parts[1], parts[2],
                          IF Len(parts) > 2 THEN parts[3] ELSE None,
                          IF Len(parts) > 3 THEN parts[4] ELSE None>>]

\* the keys handed to validate_key
KeySamples ==
    {"plan|" \o PlanLower,
     "plan|" \o PlanUpper,
     "blackboard|" \o PlanUpper,
     "context|" \o PlanLower \o "|file:///a.txt",
     "result|" \o PlanLower \o "|1|agentX",
     "result|" \o PlanUpper \o "|1|Writer",
     "result|not-a-uuid|1|agentX",
     "plan|not-a-uuid",
     "foo|" \o PlanLower,
     "Plan|" \o PlanLower,
     "plan|" \o PlanLower \o "|x",
     "result|" \o PlanLower \o "|1",
     "context|" \o PlanLower,
     "context|" \o PlanLower \o "|a|b",
     "result|not-a-uuid|1",
     "foo|not-a-uuid",
     "plan|",
     "plan",
     ""}

NotValidated == [status |-> "none", parts |-> <<>>]

\* validate_key(k) is called
ValidateKey(k) ==
    /\ keyArg' = k
    /\ keyOut' = validate_key(k)
    /\ UNCHANGED <<fetchVars, storeVars, sweepVars, concVars>>

-----------------------------------------------------------------------------
(* Overlapping calls: a second fetch_context call writing the same cache
   file, and memory-store writes of several clients taken one Redis command
   at a time *)

NoPeer == [pc |-> "idle", url |-> ""]

\* what a reader finds in a file whose writer has flushed a part of its
\* buffer
PartialText(text) == SubSeq(text, 1, Len(text) \div 2)

\* the overlapping call has read and converted url and reaches
\* write_cache_file: fs.open(cache_file, "w") creates or truncates the file
PeerOpens(url) ==
    /\ peer.pc = "idle"
    /\ url \in ValidUrls
    /\ doc[url].isstr
    /\ peer' = [pc |-> "opened", url |-> url]
    /\ cache' = [cache EXCEPT ![CacheFile(url)] = File("")]
    /\ stat' = Touch(stat, CacheFile(url))
    /\ UNCHANGED <<doc, pc, cur, log, result, hist, calls>>
    /\ UNCHANGED <<storeVars, evictor, keyVars, writers>>

\* f.write(contents): a part of the text reaches the file before the rest
PeerFlushes ==
    /\ peer.pc = "opened"
    /\ peer' = [peer EXCEPT !.pc = "flushed"]
    /\ cache' = [cache EXCEPT ![CacheFile(peer.url)] =
                    File(PartialText(WrittenText(doc[peer.url])))]
    /\ UNCHANGED <<doc, pc, cur, log, result, hist, calls>>
    /\ UNCHANGED <<storeVars, sweepVars, keyVars, writers>>

\* the with block is left: the file holds the whole text
PeerCloses ==
    /\ peer.pc \in {"opened", "flushed"}
    /\ peer' = [peer EXCEPT !.pc = "closed"]
    /\ cache' = [cache EXCEPT ![CacheFile(peer.url)] =
                    File(WrittenText(doc[peer.url]))]
    /\ UNCHANGED <<doc, pc, cur, log, result, hist, calls>>
    /\ UNCHANGED <<storeVars, sweepVars, keyVars, writers>>

\* the clients whose writes overlap
Clients == {1, 2}

IdleWriter ==
    [pc |-> "idle", op |-> "none", b_key |-> "", v_key |-> "",
     description |-> "", data |-> [t |-> "none", v |-> ""]]

\* the call of client w moves on to position to
Goto(w, to) == writers' = [writers EXCEPT ![w].pc = to]

\* write_result up to get_redis_client: the checks on result and the keys
StartWriteResult(w, plan_id, agent_name, step_id, description, res) ==
    LET data == ResultData(res)
    IN  /\ writers[w].pc = "idle"
        /\ ops' = ops + 1
        /\ IF data.t = "ValueError"
           THEN /\ last' = Finished("write_result", "ValueError")
                /\ writers' = [writers EXCEPT ![w].pc = "raised"]
           ELSE /\ last' = last
                /\ writers' = [writers EXCEPT ![w] =
                      [pc |-> "hset", op |-> "write_result",
                       b_key |-> BlackboardKey(plan_id),
                       v_key |-> ResultKey(plan_id, step_id, agent_name),
                       description |-> description, data |-> data]]
        /\ UNCHANGED <<redis, elapsed, ticks, peer>>
        /\ UNCHANGED <<fetchVars, sweepVars, keyVars>>

\* write_context_description up to get_redis_client
StartWriteContext(w, plan_id, url, description) ==
    /\ writers[w].pc = "idle"
    /\ ops' = ops + 1
    /\ writers' = [writers EXCEPT ![w] =
          [pc |-> "hset", op |-> "write_context_description",
           b_key |-> BlackboardKey(plan_id),
           v_key |-> ContextKey(plan_id, url),
           description |-> description, data |-> [t |-> "none", v |-> ""]]]
    /\ UNCHANGED <<redis, elapsed, last, ticks, peer>>
    /\ UNCHANGED <<fetchVars, sweepVars, keyVars>>

\* client.hset(_b_key, _v_key, description)
CmdHSet(w) ==
    /\ writers[w].pc = "hset"
    /\ redis' = HSet(redis, writers[w].b_key, writers[w].v_key,
                     writers[w].description)
    /\ Goto(w, "expire_index")
    /\ UNCHANGED <<elapsed, last, ops, ticks, peer>>
    /\ UNCHANGED <<fetchVars, sweepVars, keyVars>>

\* client.expire(_b_key, 3600)
CmdExpireIndex(w) ==
    /\ writers[w].pc = "expire_index"
    /\ redis' = Expire(redis, writers[w].b_key, ExpireSeconds)
    /\ Goto(w, IF writers[w].op = "write_result" THEN "set" ELSE "return")
    /\ UNCHANGED <<elapsed, last, ops, ticks, peer>>
    /\ UNCHANGED <<fetchVars, sweepVars, keyVars>>

\* client.set(_v_key, data)
CmdSet(w) ==
    /\ writers[w].pc = "set"
    /\ IF Encode(writers[w].data).ok
       THEN /\ redis' = Set(redis, writers[w].v_key, Encode(writers[w].data).bytes)
            /\ Goto(w, "expire_value")
            /\ last' = last
       ELSE /\ redis' = redis
            /\ Goto(w, "raised")
            /\ last' = Finished("write_result", "DataError")
    /\ UNCHANGED <<elapsed, ops, ticks, peer>>
    /\ UNCHANGED <<fetchVars, sweepVars, keyVars>>

\* client.expire(_v_key, 3600)
CmdExpireValue(w) ==
    /\ writers[w].pc = "expire_value"
    /\ redis' = Expire(redis, writers[w].v_key, ExpireSeconds)
    /\ elapsed' = [elapsed EXCEPT ![writers[w].v_key] = 0]
    /\ Goto(w, "return")
    /\ UNCHANGED <<last, ops, ticks, peer>>
    /\ UNCHANGED <<fetchVars, sweepVars, keyVars>>

\* return "ok"
WriterReturns(w) ==
    /\ writers[w].pc = "return"
    /\ Goto(w, "returned")
    /\ last' = Finished(writers[w].op, "ok")
    /\ UNCHANGED <<redis, elapsed, ops, ticks, peer>>
    /\ UNCHANGED <<fetchVars, sweepVars, keyVars>>

TickSteps == {1, 3599}

\* the clock advances by d seconds
Tick(d) ==
    /\ ticks < MaxTicks
    /\ ticks' = ticks + 1
    /\ redis' = Expired(redis, d)
    /\ elapsed' = [k \in DOMAIN elapsed |->
                     IF elapsed[k] = NeverWritten THEN NeverWritten ELSE elapsed[k] + d]
    /\ stat' = Aged(stat, d)
    /\ evictor' = [evictor EXCEPT !.todo = AgedListing(@, d)]
    /\ UNCHANGED <<last, ops>>
    /\ UNCHANGED <<fetchVars, keyVars, concVars>>

InitStore ==
    /\ redis = [k \in RedisKeys |-> NoEntry]
    /\ elapsed = [k \in TimedKeys |-> NeverWritten]
    /\ last = Finished("none", "none")
    /\ ops = 0
    /\ ticks = 0

NextStore ==
    \/ \E p \in PlanIds, a \in AgentNames, s \in StepIds, d \in Descriptions,
          res \in Results : write_result(p, a, s, d, res)
    \/ \E p \in PlanIds, u \in ContextUrls, d \in Descriptions :
          write_context_description(p, u, d)
    \/ \E d \in TickSteps : Tick(d)

InitFetch ==
    /\ doc \in [ValidUrls -> Markdowns]
    /\ cache = [f \in CacheFiles |-> NoFile]
    /\ pc = "idle"
    /\ cur = NoArgs
    /\ log = NewLog
    /\ result = NoResult
    /\ hist = [u \in Urls |-> NoCall]
    /\ calls = 0

\* no file is older than the moment the process came up; the scheduler was
\* started when the server module was loaded
InitEvictor ==
    /\ stat = [f \in CacheFiles |-> [kind |-> "ctime", age |-> 0]]
    /\ evictor = IdleEvictor

InitKey ==
    /\ keyArg = ""
    /\ keyOut = NotValidated

\* no call overlaps another yet
InitConc ==
    /\ peer = NoPeer
    /\ writers = [w \in Clients |-> IdleWriter]

Init == InitFetch /\ InitStore /\ InitEvictor /\ InitKey /\ InitConc

\* the memory store on its own: the remote documents play no part
InitStoreOnly == Init /\ doc = [u \in ValidUrls |-> TextDoc]

NextFetch ==
    \/ \E url \in Urls, use_cache \in BOOLEAN : Call(url, use_cache)
    \/ LoadCacheExists
    \/ LoadCacheOpen
    \/ BackendRead
    \/ Convert
    \/ WriteCacheFile
    \/ ReturnToCaller

SpecFetch == Init /\ [][NextFetch]_vars

SpecStore == InitStoreOnly /\ [][NextStore]_vars

NextPlan ==
    \/ \E p \in PlanIds, plan \in PlanInputs : save_plan(p, plan)
    \/ \E p \in PlanIds, s \in UpdateStepIds, st \in UpdateStatuses :
          update_plan_status(p, s, st)
    \/ \E d \in TickSteps : Tick(d)

SpecPlan == InitStoreOnly /\ [][NextPlan]_vars

\* the cache files the evictor finds at startup
SweepFiles == {CacheFile(UrlPdf), CacheFile(UrlTxt)}

\* their ages: fresh, or about to pass the threshold
SweepAges == {0, MaxAge}

\* the server comes up over a cache directory left by earlier runs
InitSweep ==
    /\ doc = [u \in ValidUrls |-> TextDoc]
    /\ \E present \in SUBSET SweepFiles :
          /\ cache = [f \in CacheFiles |->
                        IF f \in present THEN File(TextDoc) ELSE NoFile]
          /\ stat \in [CacheFiles -> [kind : StampKinds, age : SweepAges]]
          /\ \A f \in CacheFiles \ present : stat[f] = [kind |-> "ctime", age |-> 0]
    /\ evictor = IdleEvictor
    /\ pc = "idle"
    /\ cur = NoArgs
    /\ log = NewLog
    /\ result = NoResult
    /\ hist = [u \in Urls |-> NoCall]
    /\ calls = 0
    /\ InitStore
    /\ InitKey
    /\ InitConc

\* the clock advances by a second: an entry at the threshold passes it
SweepTickSteps == {1}

NextSweep ==
    \/ CronFires
    \/ SweepEntry
    \/ SweepReturns
    \/ Shutdown
    \/ \E d \in SweepTickSteps : Tick(d)

SpecSweep == InitSweep /\ [][NextSweep]_vars

\* the trigger fires every hour while the scheduler runs, and a job that was
\* started runs on
SpecSweepFair ==
    SpecSweep /\ WF_vars(CronFires) /\ WF_vars(SweepEntry) /\ WF_vars(SweepReturns)

\* calls whose plan id or agent name breaks the key grammar
BadCalls == {<<BadPlanId, "writer">>, <<PlanLower, BadAgent>>}

NextKey ==
    \/ \E k \in KeySamples : ValidateKey(k)
    \/ \E c \in BadCalls, res \in {DictRes, IntRes} :
          write_result(c[1], c[2], 1, "d1", res)
    \/ write_context_description(BadPlanId, UrlTxt, "d1")
    \/ \E plan \in {DictPlan(PlanTwo), IntPlan} : save_plan(BadPlanId, plan)
    \/ update_plan_status(BadPlanId, 1, "completed")

\* validate_key next to the store operations, which are handed plan ids and
\* agent names that break the key grammar
SpecKey == InitStoreOnly /\ [][NextKey]_vars

\* every kind of entry of one plan is written, expires and is read
NextMemory ==
    \/ \E s \in StepIds, res \in Results \cup {StrNullRes} :
          write_result(PlanLower, "writer", s, "d1", res)
    \/ write_context_description(PlanLower, UrlTxt, "d1")
    \/ \E plan \in PlanInputs : save_plan(PlanLower, plan)
    \/ \E d \in TickSteps : Tick(d)

SpecMemory == InitStoreOnly /\ [][NextMemory]_vars

\* a cache entry of an earlier run, fresh or past the threshold, or none
InitRace ==
    /\ doc = [u \in ValidUrls |-> TextDoc]
    /\ pc = "idle"
    /\ cur = NoArgs
    /\ log = NewLog
    /\ result = NoResult
    /\ hist = [u \in Urls |-> NoCall]
    /\ calls = 0
    /\ InitStore
    /\ InitKey
    /\ InitConc
    /\ evictor = IdleEvictor
    /\ \E entry \in {NoFile, File(TextDoc.v)}, age \in {0, MaxAge + 1} :
          /\ cache = [f \in CacheFiles |->
                        IF f = CacheFile(UrlTxt) THEN entry ELSE NoFile]
          /\ stat = [f \in CacheFiles |->
                       [kind |-> "ctime",
                        age |-> IF f = CacheFile(UrlTxt) /\ entry.exists
                                THEN age ELSE 0]]

\* cached fetches of one locator while the evictor sweeps
NextRace ==
    \/ Call(UrlTxt, TRUE)
    \/ LoadCacheExists
    \/ LoadCacheOpen
    \/ BackendRead
    \/ Convert
    \/ WriteCacheFile
    \/ ReturnToCaller
    \/ CronFires
    \/ SweepEntry
    \/ SweepReturns

SpecRace == InitRace /\ [][NextRace]_vars

\* cached fetches of one locator while another call writes its cache file
NextOverlap ==
    \/ Call(UrlTxt, TRUE)
    \/ LoadCacheExists
    \/ LoadCacheOpen
    \/ BackendRead
    \/ Convert
    \/ WriteCacheFile
    \/ ReturnToCaller
    \/ PeerOpens(UrlTxt)
    \/ PeerFlushes
    \/ PeerCloses

SpecOverlap == InitStoreOnly /\ [][NextOverlap]_vars

\* the results the clients write
WriterResults == {DictRes, StrObjRes, StrBadRes}

\* two clients write to the memory store, their Redis commands interleaved
NextWriters ==
    \/ \E w \in Clients, p \in PlanIds, s \in StepIds, d \in Descriptions,
          res \in WriterResults : StartWriteResult(w, p, "writer", s, d, res)
    \/ \E w \in Clients, p \in PlanIds, u \in ContextUrls, d \in Descriptions :
          StartWriteContext(w, p, u, d)
    \/ \E w \in Clients :
          \/ CmdHSet(w)
          \/ CmdExpireIndex(w)
          \/ CmdSet(w)
          \/ CmdExpireValue(w)
          \/ WriterReturns(w)

SpecWriters == InitStoreOnly /\ [][NextWriters]_vars

\* the statuses handed to update_plan_status, one of them outside
\* PlanStep.status
AnyStatuses == {"completed", "pending", "done"}

\* one plan is saved and its steps are updated with any status
NextStatus ==
    \/ \E plan \in {DictPlan(PlanTwo), JsonPlan(PlanDefault)} :
          save_plan(PlanLower, plan)
    \/ \E s \in StepIds, status \in AnyStatuses :
          update_plan_status(PlanLower, s, status)
    \/ \E d \in TickSteps : Tick(d)

SpecStatus == InitStoreOnly /\ [][NextStatus]_vars

Next ==
    \/ NextFetch \/ NextStore \/ NextPlan \/ NextSweep \/ NextKey \/ NextMemory
    \/ NextRace \/ NextOverlap \/ NextWriters \/ NextStatus

Spec == Init /\ [][Next]_vars

-----------------------------------------------------------------------------
(* Claims about fetch_context, checked under SpecFetch *)

Fetching == pc # "idle"

Done == pc = "done"

Ok(text) == result.status = "ok" /\ result.text = text

\* the previous call on the locator of the call in flight: a successful
\* use_cache=True fetch that started without a cache entry
FirstFetch == hist[cur.url]

\* C1: after a first successful fetch(locator, useCache=true) that found no
\* cache entry, the next fetch(locator, useCache=true) returns the same text
\* and makes no backend read and no conversion, so that the two calls make
\* exactly one backend read and one conversion between them.  Stated for
\* calls in which the cache store itself does not fail.
FetchIdempotent ==
    (/\ Fetching /\ cur.use_cache
     /\ FirstFetch.valid /\ FirstFetch.cold
     /\ ~FirstFetch.cacheFault /\ ~log.readFault)
    => /\ pc \in {"load_exists", "load_open", "done"}
       /\ log.backendAttempts = 0 /\ log.reads = 0 /\ log.converts = 0
       /\ FirstFetch.reads + log.reads = 1
       /\ FirstFetch.converts + log.converts = 1
       /\ Done => Ok(FirstFetch.text)

FetchIdempotentWitness ==
    /\ Done /\ cur.use_cache /\ FirstFetch.valid /\ FirstFetch.cold
    /\ ~FirstFetch.cacheFault /\ ~log.readFault
    /\ Ok(FirstFetch.text) /\ FirstFetch.reads = 1

\* C2: when the backend read fails on the first k < 3 attempts and then
\* succeeds, and the document converts to text, fetch returns that text after
\* exactly k+1 attempts and k+1 backend reads; the I/O error is not handed to the
\* caller while fewer than 3 backend reads have failed.
RetryUntilSuccess ==
    /\ (/\ Done /\ log.reads >= 1 /\ doc[cur.url] = TextDoc
        /\ get_filesystem(cur.url) = "ok" /\ ~log.readFault /\ ~log.writeFault)
       => /\ Ok(doc[cur.url].v)
          /\ log.backendFaults < MaxAttempts
          /\ log.backendAttempts = log.backendFaults + 1
          /\ log.attempts = log.backendFaults + 1
          /\ log.reads = 1
    /\ (/\ Done /\ result.status = "error" /\ result.msg = "FailedToLoad"
        /\ get_filesystem(cur.url) = "ok" /\ ~log.writeFault)
       => log.backendFaults >= MaxAttempts

RetryUntilSuccessWitness ==
    /\ Done /\ Ok(doc[cur.url].v) /\ log.backendFaults = 2
    /\ log.backendAttempts = 3 /\ log.attempts = 3 /\ ~log.readFault /\ ~log.writeFault

\* steps the call in flight can still take, at most
FetchMeasure ==
    (MaxAttempts + 1 - log.attempts) * 8
    + (CASE pc = "load_exists" -> 6
         [] pc = "load_open" -> 5
         [] pc = "backend" -> 4
         [] pc = "convert" -> 3
         [] pc = "write" -> 2
         [] pc = "done" -> 1
         [] OTHER -> 0)

RetryBounded ==
    /\ log.attempts <= MaxAttempts
    /\ log.backendAttempts <= MaxAttempts
    /\ (Done /\ get_filesystem(cur.url) = "ok" /\ log.backendFaults = log.attempts)
       => /\ log.attempts = MaxAttempts
          /\ log.backendAttempts = MaxAttempts
          /\ log.sleeps = MaxAttempts - 1
          /\ result.status = "error" /\ result.exc = "OSError"

\* C3: when the backend read fails on every attempt, fetch makes exactly 3
\* attempts, never a 4th, and then hands the I/O error (OSError) to the
\* caller; every step of a call in flight brings it closer to its end, so no
\* fetch retries forever.
RetryExhaustion ==
    /\ []RetryBounded
    /\ [][(Fetching /\ ~Done) => (FetchMeasure' < FetchMeasure /\ FetchMeasure' > 0)]_vars

RetryExhaustionWitness ==
    /\ Done /\ log.backendFaults = 3 /\ log.attempts = 3
    /\ result.status = "error" /\ result.exc = "OSError"

\* C4: a fetch whose locator is malformed or names an unsupported scheme
\* fails after exactly one attempt, without any backoff wait, and the caller
\* receives the validation error (ValueError).
ValidationNotRetried ==
    (Done /\ get_filesystem(cur.url) # "ok")
    => /\ log.attempts = 1
       /\ log.sleeps = 0
       /\ result.status = "error" /\ result.exc = "ValueError"

\* C5: when the backend read succeeds and the converter yields no text (or a
\* result that is not text), fetch fails with EmptyConversion (resp.
\* NonTextConversion) after exactly one backend read and one conversion.
ConversionFailureSurfaced ==
    (/\ Done /\ log.reads >= 1 /\ doc[cur.url] # TextDoc
     /\ ~log.readFault /\ ~log.writeFault)
    => /\ result.status = "error" /\ result.exc = "ValueError"
       /\ result.msg = (IF doc[cur.url] = BytesDoc THEN "NonTextConversion"
                        ELSE "EmptyConversion")
       /\ log.reads = 1 /\ log.converts = 1

\* C6: with useCache=true a cache entry that does not exist, cannot be opened,
\* or is empty or not text is a miss: the fetch goes on to the backend read,
\* and none of these conditions reaches the caller as an error.
CacheReadFailuresAreMisses ==
    (Done /\ cur.use_cache /\ (get_filesystem(cur.url) = "ok" => doc[cur.url].isstr))
    => /\ result.msg \notin {"CacheMissing", "CacheUnreadable", "CacheEmpty"}
       /\ (log.startEntry.content = "" /\ get_filesystem(cur.url) = "ok")
          => (log.backendAttempts >= 1)

\* C7: with useCache=true and a readable non-empty cache entry, fetch returns
\* the entry's text at once: one attempt, no backend read, no conversion, no
\* cache write, the entry left as it was.
CacheHitShortCircuits ==
    (/\ Fetching /\ cur.use_cache /\ ~log.readFault
     /\ log.startEntry.exists /\ log.startEntry.content # "")
    => /\ pc \in {"load_exists", "load_open", "done"}
       /\ log.attempts = 1 /\ log.sleeps = 0
       /\ log.backendAttempts = 0 /\ log.reads = 0
       /\ log.converts = 0 /\ log.writes = 0 /\ ~log.writeFault
       /\ cache[CacheFile(cur.url)] = log.startEntry
       /\ Done => Ok(log.startEntry.content)

CacheHitShortCircuitsWitness ==
    /\ Done /\ cur.use_cache /\ ~log.readFault
    /\ log.startEntry.exists /\ log.startEntry.content # ""
    /\ Ok(log.startEntry.content)

\* C8: with useCache=true, when the backend read and the conversion succeed
\* and writing the cache entry fails, fetch still returns the converted text,
\* and the backend read and the conversion are not repeated.
CacheWriteBestEffort ==
    (/\ Done /\ cur.use_cache /\ log.writeFault /\ log.backendFaults = 0
     /\ log.reads >= 1 /\ doc[cur.url] = TextDoc)
    => /\ Ok(doc[cur.url].v)
       /\ log.reads = 1 /\ log.converts = 1

-----------------------------------------------------------------------------
(* Claims about the memory store, checked under SpecStore *)

\* C9: a result written by writeResult is readable as soon as the write has
\* returned and as long as fewer than 3600 seconds have passed since the last
\* write of its key; from then on readResult finds it absent (null), though
\* nothing deleted it.  A key never written is absent.
ResultTtl ==
    \A p \in PlanIds, a \in AgentNames, s \in StepIds :
        LET k == ResultKey(p, s, a)
            readable == fetch_result(p, a, s) # "null"
        IN  /\ elapsed[k] = NeverWritten => ~readable
            /\ elapsed[k] # NeverWritten => (readable <=> elapsed[k] < 3600)

ResultTtlWitness ==
    \E p \in PlanIds, a \in AgentNames, s1, s2 \in StepIds :
        /\ elapsed[ResultKey(p, s1, a)] = 3600
        /\ fetch_result(p, a, s1) = "null"
        /\ elapsed[ResultKey(p, s2, a)] = 3599
        /\ fetch_result(p, a, s2) # "null"

\* C10: a successful writeResult(planId, agentName, stepId, description,
\* result) stores the result under the lower-cased key
\* result|<planId>|<stepId>|<agentName> with 3600 seconds to live, records
\* description under that key in the hash blackboard|<planId>, gives the hash
\* 3600 seconds to live, and leaves the other entries of the hash as they were.
WriteResultEffect ==
    [][(ops' # ops /\ last' = Finished("write_result", "ok")) =>
       \A p \in PlanIds, a \in AgentNames, s \in StepIds, d \in Descriptions,
          res \in Results :
          write_result(p, a, s, d, res)
          => LET k == "result|" \o Lower(p) \o "|" \o Str(s) \o "|" \o Lower(a)
                 b == "blackboard|" \o Lower(p)
                 before == HGetAll(redis, b)
                 after == HGetAll(redis', b)
             IN  /\ redis'[k].type = "string"
                 /\ redis'[k].str = (IF res.t = "dict" THEN res.v
                                     ELSE json_loads(res.v).v)
                 /\ redis'[k].ttl = 3600
                 /\ redis'[b].type = "hash"
                 /\ redis'[b].ttl = 3600
                 /\ DOMAIN after = DOMAIN before \cup {k}
                 /\ after[k] = d
                 /\ \A f \in DOMAIN before \ {k} : after[f] = before[f]]_vars

WriteResultEffectWitness ==
    /\ last = Finished("write_result", "ok")
    /\ \E p \in PlanIds, a \in AgentNames, s \in StepIds :
          LET k == ResultKey(p, s, a)
              index == fetch_blackboard(p)
          IN  /\ elapsed[k] = 0
              /\ k \in DOMAIN index
              /\ Cardinality(DOMAIN index) >= 2
              /\ redis[BlackboardKey(p)].ttl = 3600

\* C11: after write_result(plan, agent, step, description, r) for an object
\* r, given as a dict or as the JSON text of that dict, the call has returned
\* "ok" and what fetch_result returns decodes to the object r.
ResultRoundTrip ==
    [][(ops' # ops /\ last'.op = "write_result") =>
        \A p \in PlanIds, a \in AgentNames, s \in StepIds, d \in Descriptions,
           res \in {DictRes, StrObjRes} :
            write_result(p, a, s, d, res) =>
                /\ last'.outcome = "ok"
                /\ json_loads(fetch_result(p, a, s)') =
                       [t |-> "dict", v |-> "{\"a\": 1}"]]_vars

\* C15: write_result with a result that is neither a dict nor a str holding
\* JSON fails with ValueError and leaves every key, every hash entry and
\* every expiry of the store as it was.
MalformedResultRejected ==
    [][(ops' # ops /\ last'.op = "write_result") =>
        \A p \in PlanIds, a \in AgentNames, s \in StepIds, d \in Descriptions,
           res \in {StrBadRes, IntRes} :
            write_result(p, a, s, d, res) =>
                /\ last'.outcome = "ValueError"
                /\ redis' = redis
                /\ elapsed' = elapsed]_vars

MalformedResultRejectedWitness ==
    /\ last = Finished("write_result", "ValueError")
    /\ \E p \in PlanIds : DOMAIN fetch_blackboard(p) # {}

\* C20: write_context_description(plan, locator, description) leaves the
\* blackboard hash of the plan with the entry context|<plan>|<locator> ->
\* description, its other entries as they were, and an expiry of 3600.
ContextDescriptionIndexed ==
    [][(ops' # ops /\ last'.op = "write_context_description") =>
        \A p \in PlanIds, u \in ContextUrls, d \in Descriptions :
            write_context_description(p, u, d) =>
                LET k == "context|" \o p \o "|" \o u
                    before == fetch_blackboard(p)
                    after == fetch_blackboard(p)'
                IN  /\ last'.outcome = "ok"
                    /\ DOMAIN after = DOMAIN before \cup {k}
                    /\ after[k] = d
                    /\ \A f \in DOMAIN before \ {k} : after[f] = before[f]
                    /\ redis'["blackboard|" \o Lower(p)].ttl = 3600]_vars

ContextDescriptionIndexedWitness ==
    /\ last = Finished("write_context_description", "ok")
    /\ LET index == fetch_blackboard(PlanUpper)
       IN  /\ ("context|" \o PlanUpper \o "|" \o UrlTxt) \in DOMAIN index
           /\ Cardinality(DOMAIN index) >= 2
           /\ redis[BlackboardKey(PlanUpper)].ttl = 3600

-----------------------------------------------------------------------------
(* Claims about plans, checked under SpecPlan *)

PlanDefaultFilled ==
    [id |-> 3, goal |-> "g3", steps |-> <<Step(1, "editor", "pending")>>]

\* the plan a reader is to get back for a well-formed document
Written(d) == IF d = PlanDefault THEN PlanDefaultFilled ELSE d

MalformedInputs ==
    {DictPlan(d) : d \in MalformedDocs} \cup {JsonPlan(d) : d \in MalformedDocs}
        \cup {NotJsonPlan, IntPlan}

PlanKeyAndTtl ==
    [][(ops' # ops /\ last' = Finished("save_plan", "ok")) =>
        \A p \in PlanIds, d \in WellFormedDocs :
            (save_plan(p, DictPlan(d)) \/ save_plan(p, JsonPlan(d))) =>
                /\ redis'["plan|" \o p].type = "json"
                /\ redis'["plan|" \o p].json = Written(d)
                /\ redis'["plan|" \o p].ttl = 3600]_vars

\* C14: save_plan with a plan that is not a well-formed Plan (dict or JSON
\* text with a missing field, an agent or a status outside its set, text
\* that is not JSON, another type) fails with ValueError and the store is
\* unchanged.
MalformedPlanRejected ==
    [][(ops' # ops /\ last'.op = "save_plan") =>
        \A p \in PlanIds, plan \in MalformedInputs :
            save_plan(p, plan) =>
                /\ last'.outcome = "ValueError"
                /\ redis' = redis
                /\ elapsed' = elapsed]_vars

MalformedPlanRejectedWitness ==
    /\ last = Finished("save_plan", "ValueError")
    /\ \E p \in PlanIds : fetch_plan(p) # NoDoc

\* C16: update_plan_status(plan_id, step_id, status) on a stored plan with
\* 1 <= step_id <= number of steps returns "ok", sets the status of the step
\* at position step_id (index step_id - 1) and changes nothing else in the
\* plan or in the store.
UpdateStepFrame ==
    [][(ops' # ops /\ last'.op = "update_plan_status") =>
        \A p \in PlanIds, s \in UpdateStepIds, st \in UpdateStatuses :
            (/\ update_plan_status(p, s, st)
             /\ fetch_plan(p) # NoDoc
             /\ s >= 1
             /\ s <= Len(fetch_plan(p).steps)) =>
                LET before == fetch_plan(p)
                    after == fetch_plan(p)'
                IN  /\ last'.outcome = "ok"
                    /\ after.id = before.id
                    /\ after.goal = before.goal
                    /\ Len(after.steps) = Len(before.steps)
                    /\ after.steps[s].status = st
                    /\ after.steps[s].id = before.steps[s].id
                    /\ after.steps[s].agent = before.steps[s].agent
                    /\ after.steps[s].prompt = before.steps[s].prompt
                    /\ \A i \in DOMAIN before.steps \ {s} :
                          after.steps[i] = before.steps[i]
                    /\ \A k \in RedisKeys \ {p} : redis'[k] = redis[k]]_vars

UpdateStepFrameWitness ==
    /\ last = Finished("update_plan_status", "ok")
    /\ \E p \in PlanIds :
          /\ fetch_plan(p).id = 1
          /\ fetch_plan(p).steps[1].status = "pending"
          /\ fetch_plan(p).steps[2].status = "failed"
          /\ \A q \in PlanIds \ {p} : elapsed[q] = NeverWritten

UpdateBadStepRejected ==
    [][(ops' # ops /\ last'.op = "update_plan_status") =>
        \A p \in PlanIds, s \in UpdateStepIds, st \in UpdateStatuses :
            (/\ update_plan_status(p, s, st)
             /\ fetch_plan(p) # NoDoc
             /\ (s < 1 \/ s > Len(fetch_plan(p).steps))) =>
                /\ last'.outcome # "ok"
                /\ fetch_plan(p)'.steps = fetch_plan(p).steps]_vars

\* C19: a plan is stored exactly while fewer than 3600 time-units have passed
\* since the last save_plan of its id, whatever update_plan_status calls
\* happened since.
PlanTtlNotRefreshed ==
    \A p \in PlanIds :
        /\ elapsed[p] = NeverWritten => fetch_plan(p) = NoDoc
        /\ elapsed[p] # NeverWritten =>
              (fetch_plan(p) # NoDoc <=> elapsed[p] < 3600)

PlanTtlNotRefreshedWitness ==
    /\ last = Finished("update_plan_status", "ok")
    /\ \E p \in PlanIds :
          /\ elapsed[p] = 3600
          /\ fetch_plan(p) = NoDoc
          /\ \A q \in PlanIds \ {p} : elapsed[q] = NeverWritten

-----------------------------------------------------------------------------
(* The evictor's claims *)

\* the age remove_stale_files is meant to go by: what the listing says, and 0
\* for a timestamp that cannot be read
AgeAtSweep(entry) == IF entry.kind = "ctime_text" THEN 0 ELSE entry.age

\* C22: after a sweep that ran to completion every listed entry was looked
\* at, the entries whose age exceeded the threshold when they were looked at
\* are gone, and the entries whose age was at most the threshold (exactly the
\* threshold and unreadable, hence 0, included) are still there
EvictionProperty ==
    evictor.outcome = "completed" =>
        /\ {e.name : e \in evictor.seen} = evictor.listed
        /\ \A e \in evictor.seen :
              cache[e.name].exists <=> AgeAtSweep(e) <= MaxAge

\* a completed sweep that removed an entry past the threshold and kept one
\* with an unreadable timestamp
EvictionPropertyWitness ==
    /\ evictor.outcome = "completed"
    /\ \E e \in evictor.seen :
          e.kind = "ctime" /\ e.age > MaxAge /\ ~cache[e.name].exists
    /\ \E e \in evictor.seen :
          e.kind = "ctime_text" /\ e.age > MaxAge /\ cache[e.name].exists

\* C23: for the entry the sweep is about to look at, whatever timestamp its
\* file info carries, get_file_age returns a number without raising, and
\* returns 0 when the age cannot be determined
AgeNeverRaises ==
    (evictor.pc = "sweeping" /\ evictor.todo # <<>>) =>
        LET entry == Head(evictor.todo)
            file_age == get_file_age(entry)
        IN  /\ ~file_age.raised
            /\ entry.kind \in {"ctime_text", "none"} => file_age.age = 0

\* the step in which a run of the job ends with an exception
JobError == evictor'.errors > evictor.errors

-----------------------------------------------------------------------------
(* The claims about keys *)

\* the parts of the key last validated
KeyParts == Split(keyArg)

KindKnown == KeyParts[1] \in KeyKinds

ArityRight == KindKnown /\ Len(KeyParts) = Arity(KeyParts[1])

\* C26: validate_key fails with the format error exactly when part 0 is not
\* one of plan, blackboard, context, result or the number of parts is not the
\* one of the kind (2, 2, 3, 4), and accepts a key with a known kind, the
\* right number of parts and a UUID as part 1
KeyFormatErrors ==
    keyOut.status # "none" =>
        /\ keyOut.status = "KeyFormat" <=> (~KindKnown \/ ~ArityRight)
        /\ (ArityRight /\ IsUuid(KeyParts[2])) => keyOut.status = "ok"

\* a key of a known kind with one part too many was refused for its format
KeyFormatErrorsWitness ==
    /\ keyOut.status = "KeyFormat"
    /\ KindKnown
    /\ Len(KeyParts) = Arity(KeyParts[1]) + 1
    /\ IsUuid(KeyParts[2])

\* C27: validate_key fails with the plan-id error whenever kind and number of
\* parts are right and part 1 is no UUID; when the number of parts and the
\* UUID are both wrong the format error is the one reported
InvalidPlanIdError ==
    keyOut.status # "none" =>
        /\ (ArityRight /\ ~IsUuid(KeyParts[2])) => keyOut.status = "PlanId"
        /\ (KindKnown /\ ~ArityRight /\ Len(KeyParts) > 1 /\ ~IsUuid(KeyParts[2]))
              => keyOut.status = "KeyFormat"

\* result|not-a-uuid|1|agentX was refused for its plan id
InvalidPlanIdErrorWitness ==
    /\ keyArg = "result|not-a-uuid|1|agentX"
    /\ keyOut.status = "PlanId"

\* "|".join(parts)
RECURSIVE Join(_)
Join(parts) ==
    IF parts = <<>> THEN ""
    ELSE IF Len(parts) = 1 THEN parts[1]
    ELSE parts[1] \o "|" \o Join(Tail(parts))

\* the parts that are there
Present(parts) == SelectSeq(parts, LAMBDA part : part # None)

\* the lower-cased key of the parts
CanonicalKey(parts) == Join([i \in DOMAIN parts |-> Lower(parts[i])])

\* C28: for an accepted key, the parts returned that are present, joined
\* with |, give the lower-cased key of storage, and the parts the kind does
\* not have are returned as None, never as the empty string
KeyRoundTrip ==
    keyOut.status = "ok" =>
        /\ Join(Present(keyOut.parts)) = CanonicalKey(KeyParts)
        /\ \A i \in 1..4 : i > Len(KeyParts) <=> keyOut.parts[i] = None

\* the store holds nothing under a key made from a plan id that is no UUID
\* or from an agent name with a | in it
NothingStoredUnderBadKey == \A k \in BadKeys : ~Exists(redis, k)

PlanKeyCaseInsensitive == fetch_plan(PlanUpper) = fetch_plan(PlanLower)

-----------------------------------------------------------------------------
(* The claim about reads of absent entries *)

-----------------------------------------------------------------------------
(* The claims about the index, the expiry and the step status *)

\* C31: the hash blackboard|<plan_id> has an entry, under the key of the
\* entry, for every plan and result of the plan that is in the store
IndexSummarizesWrites ==
    \A p \in PlanIds :
        /\ Exists(redis, PlanKey(p)) =>
              (PlanKey(p) \in DOMAIN fetch_blackboard(p)
                  \/ PrefixedPlanKey(p) \in DOMAIN fetch_blackboard(p))
        /\ \A s \in StepIds, a \in AgentNames :
              Exists(redis, ResultKey(p, s, a)) =>
                  ResultKey(p, s, a) \in DOMAIN fetch_blackboard(p)

-----------------------------------------------------------------------------
(* The claims about the cache under failed, uncached and overlapping
   fetches *)

\* C32: a fetch_context call that ends with an exception leaves the cache
\* entry of its locator as it found it
FailedFetchLeavesCache ==
    (pc = "done" /\ result.status = "error") =>
        cache[CacheFile(cur.url)] = log.startEntry

\* C33: a call with use_cache=False never reaches load_cache_file or
\* write_cache_file and leaves the cache entry of its locator as it found
\* it; when it returns text it has read the backend and converted once
NoCacheBypasses ==
    (Fetching /\ ~cur.use_cache) =>
        /\ pc \notin {"load_exists", "load_open", "write"}
        /\ cache[CacheFile(cur.url)] = log.startEntry
        /\ log.writes = 0
        /\ (pc = "done" /\ result.status = "ok") =>
              /\ log.reads = 1
              /\ log.converts = 1
              /\ result.text = doc[cur.url].v

\* an uncached call returned text although a readable entry was there
NoCacheBypassesWitness ==
    /\ pc = "done"
    /\ ~cur.use_cache
    /\ result.status = "ok"
    /\ log.startEntry.exists
    /\ log.startEntry.content # ""
    /\ log.reads = 1

-----------------------------------------------------------------------------
(* The claims about writes taken one Redis command at a time *)

\* C34: every plan key, result key and index hash that is in the store has
\* an expiry, also between the commands of a write
EveryEntryExpires ==
    \A k \in RedisKeys : Exists(redis, k) => redis[k].ttl # NoExpiry

\* C39: every result key that the index hash of a plan lists has a value
\* stored under it
IndexedResultsLive ==
    \A p \in PlanIds, s \in StepIds, a \in AgentNames :
        ResultKey(p, s, a) \in DOMAIN fetch_blackboard(p) =>
            Exists(redis, ResultKey(p, s, a))

\* both clients have returned from writes to different keys of one plan
BothReturned ==
    /\ \A w \in Clients : writers[w].pc = "returned"
    /\ \A v, w \in Clients :
          /\ writers[v].b_key = writers[w].b_key
          /\ v # w => writers[v].v_key # writers[w].v_key

\* the command that client w is at
Cmd(w) ==
    \/ CmdHSet(w)
    \/ CmdExpireIndex(w)
    \/ CmdSet(w)
    \/ CmdExpireValue(w)
    \/ WriterReturns(w)

\* C40: when two clients have returned from writes to different keys of one
\* plan, the index hash holds both keys, each with the description of its
\* writer, and each result key holds the value of its writer; and a client
\* inside a write can always take its next command, whatever the other does
NoLostUpdates ==
    /\ BothReturned =>
          \A w \in Clients :
             /\ writers[w].v_key \in DOMAIN redis[writers[w].b_key].hash
             /\ redis[writers[w].b_key].hash[writers[w].v_key] =
                   writers[w].description
             /\ writers[w].op = "write_result" =>
                   redis[writers[w].v_key].str = Encode(writers[w].data).bytes
    /\ \A w \in Clients :
          writers[w].pc \notin {"idle", "raised", "returned"} => ENABLED Cmd(w)

\* two results of one plan were written with different descriptions, the
\* commands of the two clients alternating
NoLostUpdatesWitness ==
    /\ BothReturned
    /\ \A w \in Clients : writers[w].op = "write_result"
    /\ writers[1].description # writers[2].description
    /\ redis[writers[1].b_key].ttl = ExpireSeconds

-----------------------------------------------------------------------------
(* The claims about the status of a step *)

\* C35: while a plan stays stored, a step of it that is completed or failed
\* is returned to pending by no operation at all, and the status of a step
\* changes only in a step of update_plan_status
StatusOnlyByUpdate ==
    [][\A p \in PlanIds :
          (fetch_plan(p) # NoDoc /\ fetch_plan(p)' # NoDoc) =>
              \A i \in 1..Len(fetch_plan(p).steps) :
                  (i <= Len(fetch_plan(p)'.steps)
                      /\ fetch_plan(p)'.steps[i].status # fetch_plan(p).steps[i].status)
                    => /\ last'.op = "update_plan_status"
                       /\ fetch_plan(p)'.steps[i].status # "pending"]_vars

\* C36: every step of every stored plan has a status in pending, completed,
\* failed
StatusInDomain ==
    \A p \in PlanIds :
        \A i \in 1..Len(fetch_plan(p).steps) :
            fetch_plan(p).steps[i].status \in Statuses

-----------------------------------------------------------------------------
(* The claims about fetches that overlap the evictor or each other *)

\* the exceptions that the backend or the cache store themselves caused
StoreFaults == {"FailedToLoad", "CacheWrite"}

\* C37: with the evictor sweeping at any point of a cached fetch, the call
\* ends with the converted text, or with the I/O error of a backend or
\* cache-store fault that was met; a cache file that is gone when it is
\* looked for or opened is a miss
EvictionRaceHarmless ==
    pc = "done" =>
        \/ result.status = "ok" /\ result.text = doc[cur.url].v
        \/ /\ result.status = "error"
           /\ result.msg \in StoreFaults
           /\ log.backendFaults > 0 \/ log.writeFault

\* the entry was there at the existence check and gone at the open, removed
\* by the sweep; the call returned the text of a fresh backend read
EvictionRaceHarmlessWitness ==
    /\ pc = "done"
    /\ log.vanished
    /\ log.startEntry.exists
    /\ log.reads = 1
    /\ log.backendFaults = 0
    /\ result.status = "ok"
    /\ result.text = doc[cur.url].v
    /\ evictor.runs > 0

\* C38: with another call writing the cache file of the same locator, a
\* cached fetch ends with the whole converted text, or with the I/O error of
\* a fault that was met; and when no call is in flight the cache file, if
\* there, holds the whole text
OverlapReadsWhole ==
    /\ pc = "done" =>
          \/ result.status = "ok" /\ result.text = doc[cur.url].v
          \/ /\ result.status = "error"
             /\ result.msg \in StoreFaults
             /\ log.backendFaults > 0 \/ log.writeFault
    /\ (pc = "idle" /\ peer.pc \in {"idle", "closed"}) =>
          \A u \in ValidUrls :
             cache[CacheFile(u)].exists =>
                 cache[CacheFile(u)].content = doc[u].v

=============================================================================
